---- MODULE Spec2Model ----
(***************************************************************************)
(* Model of tools/make_image.py: main() drives combine_images(), which     *)
(* provisions the replacement tree in a chroot, attaches the donor image   *)
(* to a loop device, checks and mounts its two partitions, preserves the   *)
(* hardware directories of the donor root in a tar archive, wipes the      *)
(* root, copies the replacement tree in and restores the archive.          *)
(* Every external command run with check=True may fail; a failure raises   *)
(* CalledProcessError and leaves the state the command found.              *)
(***************************************************************************)
EXTENDS Integers, Sequences, FiniteSets, TLC

\* Number of times main() is started on the same host.
MaxRuns == 2
\* Number of command failures injected over all runs.
MaxFaults == 2

----------------------------------------------------------------------------
\* File trees.  A path is a sequence of names; a tree maps every path of the
\* universe to "absent", "dir" or the content of a regular file:
\* "d" donor content, "r" replacement content, "h" host content,
\* "g" content generated by the provisioning.

Paths ==
  { <<"boot">>, <<"boot", "kernel.img">>, <<"boot", "boot">>,
    <<"etc">>, <<"etc", "passwd">>, <<"etc", "os-release">>,
    <<"etc", "resolv.conf">>, <<"etc", "fstab">>, <<"etc", "hostname">>,
    <<"usr">>, <<"usr", "src">>, <<"usr", "lib">>,
    <<"usr", "lib", "modules">>, <<"usr", "lib", "modules", "x.ko">>,
    <<"usr", "lib", "modules", "y.ko">>, <<"usr", "lib", "firmware">>,
    <<"usr", "lib", "raspi-config">>, <<"usr", "lib", "systemd">> }

EmptyTree == [p \in Paths |-> "absent"]

IsPrefix(a, b) == Len(a) <= Len(b) /\ SubSeq(b, 1, Len(a)) = a

\* os.path.exists(os.path.join(root, p))
Exists(t, p) == t[p] # "absent"

\* os.path.isdir(os.path.join(root, p))
IsDir(t, p) == t[p] = "dir"

\* os.listdir(d): the names of the entries directly under d
ListDir(t, d) ==
  { p[Len(d) + 1] : p \in { q \in Paths : /\ Len(q) = Len(d) + 1
                                          /\ IsPrefix(d, q)
                                          /\ Exists(t, q) } }

\* The spelling of the names that can appear under usr/lib.
NameChars(n) ==
  CASE n = "modules"      -> <<"m", "o", "d", "u", "l", "e", "s">>
    [] n = "firmware"     -> <<"f", "i", "r", "m", "w", "a", "r", "e">>
    [] n = "raspi-config" -> <<"r", "a", "s", "p", "i", "-", "c", "o", "n", "f", "i", "g">>
    [] n = "systemd"      -> <<"s", "y", "s", "t", "e", "m", "d">>
    [] OTHER              -> <<>>

VendorPrefix == <<"r", "a", "s", "p">>

\* entry.startswith("rasp")
StartsWithVendor(n) == IsPrefix(VendorPrefix, NameChars(n))

\* rm -f on every entry: a directory is not removed.
RemoveFilesOnly(t, e) ==
  [p \in Paths |-> IF IsPrefix(e, p) /\ ~IsDir(t, e) THEN "absent" ELSE t[p]]

\* sudo rm -rf / rm -f on one entry: the entry and everything below it go.
Remove(t, e) == [p \in Paths |-> IF IsPrefix(e, p) THEN "absent" ELSE t[p]]

\* Where cp puts a source named e when the destination path is dst/e:
\* an existing directory at the destination receives the source inside it.
CpTarget(t, e) == IF IsDir(t, <<e>>) THEN <<e, e>> ELSE <<e>>

\* sudo cp -a src/e dst/e (directories) or sudo cp src/e dst/e (files)
Cp(s, e, t) ==
  LET tgt == CpTarget(t, e)
      From(p) == <<e>> \o SubSeq(p, Len(tgt) + 1, Len(p))
  IN  [p \in Paths |->
         IF IsPrefix(tgt, p) /\ From(p) \in Paths /\ Exists(s, From(p))
         THEN s[From(p)]
         ELSE t[p]]

\* tar cf archive dirs..., run in the mounted root: the members are the
\* listed paths and everything below them.
TarCreate(t, dirs) ==
  [p \in Paths |->
     IF \E i \in 1..Len(dirs) : IsPrefix(dirs[i], p) THEN t[p] ELSE "absent"]

\* tar xf --keep-old-files: what the root already holds is not replaced.
TarExtractKeepOld(t, ar) ==
  [p \in Paths |->
     IF Exists(t, p) THEN t[p]
     ELSE IF \E q \in Paths : Exists(ar, q) /\ IsPrefix(p, q) THEN
            (IF Exists(ar, p) THEN ar[p] ELSE "dir")
     ELSE "absent"]

\* tar xf archive -C root: every member replaces what is at its path, missing
\* parent directories are created, everything else is left alone.
TarExtract(t, ar) ==
  [p \in Paths |->
     IF Exists(ar, p) THEN ar[p]
     ELSE IF ~Exists(t, p) /\ \E q \in Paths : Exists(ar, q) /\ IsPrefix(p, q)
          THEN "dir"
     ELSE t[p]]

----------------------------------------------------------------------------
\* The inputs of main(): the donor image and the exported container tree.

Preservable == {"modules", "src", "firmware", "rasp"}

NeedsLib == {"modules", "firmware", "rasp"}

\* The root partition of the decompressed donor image.  has is the subset of
\* the preservable directories it holds, lib tells whether usr/lib exists.
DonorTree(has, lib) ==
  [p \in Paths |->
     CASE p = <<"boot">>                          -> "dir"
       [] p = <<"boot", "kernel.img">>            -> "d"
       [] p = <<"etc">>                           -> "dir"
       [] p = <<"etc", "passwd">>                 -> "d"
       [] p = <<"etc", "resolv.conf">>            -> "d"
       [] p = <<"usr">>                           ->
            IF lib \/ has # {} THEN "dir" ELSE "absent"
       [] p = <<"usr", "src">>                    ->
            IF "src" \in has THEN "dir" ELSE "absent"
       [] p = <<"usr", "lib">>                    ->
            IF lib THEN "dir" ELSE "absent"
       [] p = <<"usr", "lib", "systemd">>         ->
            IF lib THEN "dir" ELSE "absent"
       [] p = <<"usr", "lib", "modules">>         ->
            IF "modules" \in has THEN "dir" ELSE "absent"
       [] p = <<"usr", "lib", "modules", "y.ko">> ->
            IF "modules" \in has THEN "d" ELSE "absent"
       [] p = <<"usr", "lib", "firmware">>        ->
            IF "firmware" \in has THEN "dir" ELSE "absent"
       [] p = <<"usr", "lib", "raspi-config">>    ->
            IF "rasp" \in has THEN "dir" ELSE "absent"
       [] OTHER                                   -> "absent"]

RepKinds == {"minimal", "typical", "overlap"}

\* The tree podman cp exports.  minimal: etc only; typical: etc, usr/lib and
\* an empty boot; overlap: typical plus entries at paths the donor has too.
RepTree(kind) ==
  [p \in Paths |->
     CASE p = <<"etc">>                           -> "dir"
       [] p = <<"etc", "os-release">>             -> "r"
       [] p = <<"etc", "passwd">>                 ->
            IF kind = "overlap" THEN "r" ELSE "absent"
       [] p \in {<<"usr">>, <<"usr", "lib">>, <<"usr", "lib", "systemd">>,
                 <<"boot">>}                      ->
            IF kind = "minimal" THEN "absent" ELSE "dir"
       [] p = <<"usr", "lib", "modules">>         ->
            IF kind = "overlap" THEN "dir" ELSE "absent"
       [] p \in {<<"usr", "lib", "modules", "x.ko">>,
                 <<"usr", "lib", "modules", "y.ko">>} ->
            IF kind = "overlap" THEN "r" ELSE "absent"
       [] OTHER                                   -> "absent"]

PseudoFs == <<"dev", "proc", "sys">>

ArchiveName == "raspbian_preserve.tar"

----------------------------------------------------------------------------
VARIABLES
  donorHas,   \* input: preservable directories of the pristine donor image
  donorLib,   \* input: whether the pristine donor root has usr/lib
  repKind,    \* input: which tree the container export produces
  runs,       \* how many times main() has been started
  faults,     \* how many command failures have been injected
  imgExists,  \* the decompressed donor image file exists
  rootfs,     \* the root partition held by the donor image file
  rootTar,    \* raspbian_preserve.tar at the top of the root partition
  tmpTar,     \* /tmp/raspbian_preserve.tar on the host
  rep,        \* azurelinux_extracted, the replacement tree
  bound,      \* pseudo-filesystems bind-mounted into the replacement tree
  pc,         \* the statement the run is at
  idx,        \* position in the bind and unbind loops
  todo,       \* entries the current listdir loop has still to visit
  exc,        \* the step whose exception is propagating, or NoExc
  log,        \* the commands this run has executed, with their outcome
  injected,   \* the steps at which a failure was injected in this run
  loop,       \* this run's loop device: "none", "attached", "detached"
  detaches,   \* successful losetup -d calls of this run
  mounted,    \* partitions this run has mounted
  tmpdirs,    \* temporary mount-point directories of this run that exist
  dirs,       \* dirs_to_backup
  pre,        \* the root partition as the resolver found it
  extracted,  \* the archive the restore step extracted in this run
  stale,      \* loop devices earlier runs left attached: "idle", "busy"
  azl,        \* azl-pi.img, the output image
  zst,        \* azl-pi.img.zst, the compressed output image
  combined    \* the image combine_images returned in this run

inputs == <<donorHas, donorLib, repKind>>
host   == <<imgExists, rootfs, rootTar, tmpTar, rep, bound>>
ctl    == <<pc, idx, todo, exc, log, injected>>
dev    == <<loop, detaches, mounted, tmpdirs>>
swap   == <<dirs, pre, extracted>>
art    == <<stale, azl, zst, combined>>
vars   == <<inputs, runs, faults, host, ctl, dev, swap, art>>

NoFile == <<>>

NoExc == <<"none", "none">>

\* A command run with check=True either succeeds or, while failures may
\* still be injected, exits non-zero.
Outcomes == IF faults < MaxFaults THEN {TRUE, FALSE} ELSE {TRUE}

Entry(s, ok) == [step |-> s, ok |-> ok]

\* Bookkeeping of one executed command.
Ran(s, ok) ==
  /\ log' = Append(log, Entry(s, ok))
  /\ injected' = IF ok THEN injected ELSE Append(injected, s)
  /\ faults' = IF ok THEN faults ELSE faults + 1

\* A command that fails by itself (nothing injected).
Failed(s) ==
  /\ log' = Append(log, Entry(s, FALSE))
  /\ UNCHANGED <<injected, faults>>

Init ==
  /\ donorHas \in SUBSET Preservable
  /\ donorLib \in BOOLEAN
  /\ (donorHas \cap NeedsLib # {}) => donorLib
  /\ repKind \in RepKinds
  /\ runs = 0
  /\ faults = 0
  /\ imgExists = FALSE
  /\ rootfs = EmptyTree
  /\ rootTar = NoFile
  /\ tmpTar = NoFile
  /\ rep = EmptyTree
  /\ bound = {}
  /\ pc = "idle"
  /\ idx = 0
  /\ todo = {}
  /\ exc = NoExc
  /\ log = <<>>
  /\ injected = <<>>
  /\ loop = "none"
  /\ detaches = 0
  /\ mounted = {}
  /\ tmpdirs = {}
  /\ dirs = <<>>
  /\ pre = EmptyTree
  /\ extracted = NoFile
  /\ stale = {}
  /\ azl = NoFile
  /\ zst = NoFile
  /\ combined = NoFile

----------------------------------------------------------------------------
\* main(), lines 203-246: everything before the call of combine_images.

\* The state a new process starts with.
FreshRun ==
  /\ todo' = {}
  /\ loop' = "none"
  /\ detaches' = 0
  /\ mounted' = {}
  /\ tmpdirs' = {}
  /\ dirs' = <<>>
  /\ pre' = EmptyTree
  /\ extracted' = NoFile
  /\ combined' = NoFile

\* The loop device the process before this one left attached: busy while one
\* of its partitions is still mounted.
Leaked ==
  IF loop # "attached" THEN {}
  ELSE IF mounted # {} THEN {"busy"} ELSE {"idle"}

\* A losetup -D that detaches nothing.
ClearedNothing(s) == s

\* sudo losetup -D, line 204: every loop device is detached, but one that is
\* still in use only once its last user lets go of it.
Cleared(s) == s \cap {"busy"}

MayStart ==
  /\ pc \in {"idle", "raised", "main_raised"}
  /\ runs < MaxRuns

\* losetup -D succeeds, the export directory is removed and exported again,
\* the donor image is decompressed only when no decompressed image is there,
\* and combine_images is called.
StartRun ==
  /\ MayStart
  /\ bound = {}
  /\ runs' = runs + 1
  /\ stale' = Cleared(stale \cup Leaked)
  /\ log' = <<Entry(<<"losetup", "clear">>, TRUE)>>
  /\ injected' = <<>>
  /\ exc' = NoExc
  /\ rep' = RepTree(repKind)
  /\ imgExists' = TRUE
  /\ rootfs' = IF imgExists THEN rootfs ELSE DonorTree(donorHas, donorLib)
  /\ rootTar' = IF imgExists THEN rootTar ELSE NoFile
  /\ FreshRun
  /\ pc' = "bind"
  /\ idx' = 1
  /\ UNCHANGED <<inputs, faults, tmpTar, bound, azl, zst>>

\* shutil.rmtree(extract_to), line 223, cannot remove a directory something
\* is still mounted on: main() raises before it reaches combine_images.
StartRunBusy ==
  /\ MayStart
  /\ bound # {}
  /\ runs' = runs + 1
  /\ stale' = Cleared(stale \cup Leaked)
  /\ log' = <<Entry(<<"losetup", "clear">>, TRUE),
              Entry(<<"rmtree", "export">>, FALSE)>>
  /\ injected' = <<>>
  /\ exc' = <<"rmtree", "export">>
  /\ FreshRun
  /\ pc' = "main_raised"
  /\ idx' = 0
  /\ UNCHANGED <<inputs, faults, host, azl, zst>>

\* losetup -D exits non-zero: main() raises at line 204.
StartRunClearFails ==
  /\ MayStart
  /\ faults < MaxFaults
  /\ runs' = runs + 1
  /\ faults' = faults + 1
  /\ stale' = stale \cup Leaked
  /\ log' = <<Entry(<<"losetup", "clear">>, FALSE)>>
  /\ injected' = << <<"losetup", "clear">> >>
  /\ exc' = <<"losetup", "clear">>
  /\ FreshRun
  /\ pc' = "main_raised"
  /\ idx' = 0
  /\ UNCHANGED <<inputs, host, azl, zst>>

----------------------------------------------------------------------------
\* combine_images, lines 35-72: provisioning of the replacement tree.

\* A statement outside every try block: its exception leaves the function.
RaiseNow(s) ==
  /\ pc' = "raised"
  /\ exc' = s

\* mount --bind of one pseudo-filesystem, lines 36-39.
Bind ==
  /\ pc = "bind"
  /\ LET fs == PseudoFs[idx]
     IN \E ok \in Outcomes :
          /\ Ran(<<"bind", fs>>, ok)
          /\ IF ok
             THEN /\ bound' = bound \cup {fs}
                  /\ pc' = IF idx = Len(PseudoFs) THEN "resolv" ELSE "bind"
                  /\ idx' = IF idx = Len(PseudoFs) THEN 0 ELSE idx + 1
                  /\ exc' = exc
             ELSE /\ RaiseNow(<<"bind", fs>>)
                  /\ UNCHANGED <<bound, idx>>
  /\ UNCHANGED <<art, inputs, runs, imgExists, rootfs, rootTar, tmpTar, rep, todo,
                 dev, swap>>

\* One of the three files written into the tree before the try, lines 41-52.
WriteFile(at, next, name, content) ==
  /\ pc = at
  /\ \E ok \in Outcomes :
       /\ Ran(<<"write", name>>, ok)
       /\ IF ok
          THEN /\ rep' = [rep EXCEPT ![<<"etc", name>>] = content]
               /\ pc' = next
               /\ exc' = exc
          ELSE /\ RaiseNow(<<"write", name>>)
               /\ rep' = rep
  /\ UNCHANGED <<art, inputs, runs, imgExists, rootfs, rootTar, tmpTar, bound, idx,
                 todo, dev, swap>>

CopyResolv == WriteFile("resolv", "fstab", "resolv.conf", "h")

WriteFstab == WriteFile("fstab", "hostname", "fstab", "g")

WriteHostname == WriteFile("hostname", "update", "hostname", "g")

\* A chroot command whose exit status is not looked at.
ChrootUnchecked(at, next, name) ==
  /\ pc = at
  /\ \E ok \in Outcomes :
       /\ Ran(<<"chroot", name>>, ok)
       /\ pc' = next
       /\ exc' = exc
  /\ UNCHANGED <<art, inputs, runs, host, idx, todo, dev, swap>>

\* A chroot command inside the try, lines 54-65: its exception runs the
\* finally block first.
Chroot(at, next, name) ==
  /\ pc = at
  /\ \E ok \in Outcomes :
       /\ Ran(<<"chroot", name>>, ok)
       /\ pc' = IF ok THEN next ELSE "rm_resolv"
       /\ exc' = IF ok THEN exc ELSE <<"chroot", name>>
  /\ UNCHANGED <<art, inputs, runs, host, idx, todo, dev, swap>>

ChrootUpdate == Chroot("update", "install", "update")

ChrootInstall == Chroot("install", "usermod", "install")

ChrootUsermod == Chroot("usermod", "rm_resolv", "usermod")

\* rm -f resolv_dst whose exit status is not looked at.
RmResolvUnchecked ==
  /\ pc = "rm_resolv"
  /\ \E ok \in Outcomes :
       /\ Ran(<<"rm", "resolv.conf">>, ok)
       /\ rep' = IF ok THEN [rep EXCEPT ![<<"etc", "resolv.conf">>] = "absent"]
                 ELSE rep
       /\ pc' = "unbind"
       /\ idx' = 1
       /\ exc' = exc
  /\ UNCHANGED <<art, inputs, runs, imgExists, rootfs, rootTar, tmpTar, bound, todo,
                 dev, swap>>

\* finally, line 68: sudo rm -f resolv_dst.
RmResolv ==
  /\ pc = "rm_resolv"
  /\ \E ok \in Outcomes :
       /\ Ran(<<"rm", "resolv.conf">>, ok)
       /\ IF ok
          THEN /\ rep' = [rep EXCEPT ![<<"etc", "resolv.conf">>] = "absent"]
               /\ pc' = "unbind"
               /\ idx' = 1
               /\ exc' = exc
          ELSE /\ RaiseNow(<<"rm", "resolv.conf">>)
               /\ UNCHANGED <<rep, idx>>
  /\ UNCHANGED <<art, inputs, runs, imgExists, rootfs, rootTar, tmpTar, bound, todo,
                 dev, swap>>

\* A finally block that swallows the pending exception.
AfterProvisionSwallowed == "attach"

\* Where the first finally block ends: the pending exception goes on, or the
\* function continues with the attach.
AfterProvision == IF exc = NoExc THEN "attach" ELSE "raised"

\* finally, lines 70-72: sudo umount of one binding.
Unbind ==
  /\ pc = "unbind"
  /\ LET fs == PseudoFs[idx]
     IN \E ok \in Outcomes :
          /\ Ran(<<"unbind", fs>>, ok)
          /\ IF ok
             THEN /\ bound' = bound \ {fs}
                  /\ pc' = IF idx = Len(PseudoFs) THEN AfterProvision ELSE "unbind"
                  /\ idx' = IF idx = Len(PseudoFs) THEN 0 ELSE idx + 1
                  /\ exc' = exc
             ELSE /\ RaiseNow(<<"unbind", fs>>)
                  /\ UNCHANGED <<bound, idx>>
  /\ UNCHANGED <<art, inputs, runs, imgExists, rootfs, rootTar, tmpTar, rep, todo,
                 dev, swap>>

Provision ==
  \/ Bind
  \/ CopyResolv
  \/ WriteFstab
  \/ WriteHostname
  \/ ChrootUpdate
  \/ ChrootInstall
  \/ ChrootUsermod
  \/ RmResolv
  \/ Unbind

----------------------------------------------------------------------------
\* combine_images, lines 74-89: the block device mounter.

\* A statement inside the second try block: its exception runs the release
\* block first.
RaiseInTry(s) ==
  /\ pc' = "umount_boot"
  /\ exc' = s

\* losetup --find --show -P, lines 74-77.
Attach ==
  /\ pc = "attach"
  /\ \E ok \in Outcomes :
       /\ Ran(<<"losetup", "attach">>, ok)
       /\ IF ok
          THEN /\ loop' = "attached"
               /\ pc' = "fsck_boot"
               /\ exc' = exc
          ELSE /\ RaiseNow(<<"losetup", "attach">>)
               /\ loop' = loop
  /\ UNCHANGED <<art, inputs, runs, host, idx, todo, detaches, mounted, tmpdirs, swap>>

\* A check whose exit status is not looked at.
FsckUnchecked(at, next, part) ==
  /\ pc = at
  /\ \E ok \in Outcomes :
       /\ Ran(<<"fsck", part>>, ok)
       /\ pc' = next
       /\ exc' = exc
  /\ UNCHANGED <<art, inputs, runs, host, idx, todo, dev, swap>>

\* dosfsck -a on p1 (line 80) and fsck.ext4 -y on p2 (line 82).
Fsck(at, next, part) ==
  /\ pc = at
  /\ \E ok \in Outcomes :
       /\ Ran(<<"fsck", part>>, ok)
       /\ IF ok
          THEN /\ pc' = next
               /\ exc' = exc
          ELSE RaiseNow(<<"fsck", part>>)
  /\ UNCHANGED <<art, inputs, runs, host, idx, todo, dev, swap>>

CheckBoot == Fsck("fsck_boot", "fsck_root", "boot")

CheckRoot == Fsck("fsck_root", "mkdtemp", "root")

\* tempfile.mkdtemp twice, lines 84-85.
Mkdtemp ==
  /\ pc = "mkdtemp"
  /\ tmpdirs' = {"boot", "root"}
  /\ log' = Append(log, Entry(<<"mkdtemp", "both">>, TRUE))
  /\ pc' = "mount_boot"
  /\ UNCHANGED <<art, inputs, runs, faults, host, idx, todo, exc, injected, loop,
                 detaches, mounted, swap>>

\* sudo mount of one partition on its temporary directory, lines 88-89.
Mount(at, next, part) ==
  /\ pc = at
  /\ \E ok \in Outcomes :
       /\ Ran(<<"mount", part>>, ok)
       /\ IF ok
          THEN /\ mounted' = mounted \cup {part}
               /\ pc' = next
               /\ exc' = exc
          ELSE /\ RaiseInTry(<<"mount", part>>)
               /\ mounted' = mounted
  /\ UNCHANGED <<art, inputs, runs, host, idx, todo, loop, detaches, tmpdirs, swap>>

MountBoot == Mount("mount_boot", "mount_root", "boot")

MountRoot == Mount("mount_root", "resolve", "root")

----------------------------------------------------------------------------
\* combine_images, lines 97-117: the preservation set resolver.

UsrLib == <<"usr", "lib">>

\* The three fixed rules, lines 101-113, in the order of the code.
FixedDirs(t) ==
  (IF Exists(t, <<"usr", "lib", "modules">>)
   THEN << <<"usr", "lib", "modules">> >> ELSE <<>>)
  \o (IF Exists(t, <<"usr", "src">>) THEN << <<"usr", "src">> >> ELSE <<>>)
  \o (IF Exists(t, <<"usr", "lib", "firmware">>)
      THEN << <<"usr", "lib", "firmware">> >> ELSE <<>>)

\* The entries of a listing in the order os.listdir gives them.
RECURSIVE Listed(_)
Listed(names) ==
  IF names = {} THEN <<>>
  ELSE LET n == CHOOSE x \in names : TRUE
       IN <<n>> \o Listed(names \ {n})

\* The prefix rule, lines 114-117.
VendorDirs(t) ==
  LET hit == Listed({n \in ListDir(t, UsrLib) : StartsWithVendor(n)})
  IN [i \in 1..Len(hit) |-> UsrLib \o <<hit[i]>>]

ResolveDirs(t) == FixedDirs(t) \o VendorDirs(t)

\* The entries the wipe loop visits: os.listdir(root_mount) without boot.
WipeList(t, tar) ==
  (ListDir(t, <<>>) \cup (IF tar = NoFile THEN {} ELSE {ArchiveName})) \ {"boot"}

\* Lines 100-118.  os.listdir(usr_lib) raises FileNotFoundError when the
\* mounted root has no usr/lib.
Resolve ==
  /\ pc = "resolve"
  /\ pre' = rootfs
  /\ IF Exists(rootfs, UsrLib)
     THEN /\ dirs' = ResolveDirs(rootfs)
          /\ log' = Append(log, Entry(<<"resolve", "dirs">>, TRUE))
          /\ pc' = IF ResolveDirs(rootfs) # <<>> THEN "archive" ELSE "wipe"
          /\ todo' = IF ResolveDirs(rootfs) # <<>> THEN {}
                     ELSE WipeList(rootfs, rootTar)
          /\ exc' = exc
     ELSE /\ dirs' = FixedDirs(rootfs)
          /\ log' = Append(log, Entry(<<"listdir", "usr/lib">>, FALSE))
          /\ RaiseInTry(<<"listdir", "usr/lib">>)
          /\ todo' = todo
  /\ UNCHANGED <<art, inputs, runs, faults, host, idx, injected, dev, extracted>>

----------------------------------------------------------------------------
\* combine_images, lines 118-155: the root replacer.

\* tar cf backup_tar dirs_to_backup, lines 119-123.
Archive ==
  /\ pc = "archive"
  /\ \E ok \in Outcomes :
       /\ Ran(<<"tar", "create">>, ok)
       /\ IF ok
          THEN /\ rootTar' = <<TarCreate(rootfs, dirs)>>
               /\ pc' = "move"
               /\ exc' = exc
          ELSE /\ RaiseInTry(<<"tar", "create">>)
               /\ rootTar' = rootTar
  /\ UNCHANGED <<art, inputs, runs, imgExists, rootfs, tmpTar, rep, bound, idx, todo,
                 dev, swap>>

\* mv whose exit status is not looked at: the wipe starts all the same.
MoveArchiveUnchecked ==
  /\ pc = "move"
  /\ \E ok \in Outcomes :
       /\ Ran(<<"mv", "archive">>, ok)
       /\ tmpTar' = IF ok THEN rootTar ELSE tmpTar
       /\ rootTar' = IF ok THEN NoFile ELSE rootTar
       /\ pc' = "wipe"
       /\ todo' = WipeList(rootfs, IF ok THEN NoFile ELSE rootTar)
       /\ exc' = exc
  /\ UNCHANGED <<art, inputs, runs, imgExists, rootfs, rep, bound, idx, dev, swap>>

\* mv backup_tar backup_tar_tmp, line 125.
MoveArchive ==
  /\ pc = "move"
  /\ \E ok \in Outcomes :
       /\ Ran(<<"mv", "archive">>, ok)
       /\ IF ok
          THEN /\ tmpTar' = rootTar
               /\ rootTar' = NoFile
               /\ pc' = "wipe"
               /\ todo' = WipeList(rootfs, NoFile)
               /\ exc' = exc
          ELSE /\ RaiseInTry(<<"mv", "archive">>)
               /\ UNCHANGED <<tmpTar, rootTar, todo>>
  /\ UNCHANGED <<art, inputs, runs, imgExists, rootfs, rep, bound, idx, dev, swap>>

\* One pass of the loop of lines 128-135: rm -rf or rm -f on one entry.
WipeEntry ==
  /\ pc = "wipe"
  /\ \E e \in todo : \E ok \in Outcomes :
       /\ Ran(<<"wipe", e>>, ok)
       /\ IF ok
          THEN /\ rootfs' = IF e = ArchiveName THEN rootfs ELSE Remove(rootfs, <<e>>)
               /\ rootTar' = IF e = ArchiveName THEN NoFile ELSE rootTar
               /\ todo' = todo \ {e}
               /\ pc' = pc
               /\ exc' = exc
          ELSE /\ RaiseInTry(<<"wipe", e>>)
               /\ UNCHANGED <<rootfs, rootTar, todo>>
  /\ UNCHANGED <<art, inputs, runs, imgExists, tmpTar, rep, bound, idx, dev, swap>>

\* The wipe loop is through: the copy loop starts on os.listdir(azurelinux).
WipeEnd ==
  /\ pc = "wipe"
  /\ todo = {}
  /\ pc' = "copy"
  /\ todo' = ListDir(rep, <<>>)
  /\ UNCHANGED <<art, inputs, runs, faults, host, idx, exc, log, injected, dev, swap>>

\* One pass of the loop of lines 138-144: cp -a or cp of one entry.
CopyEntry ==
  /\ pc = "copy"
  /\ \E e \in todo : \E ok \in Outcomes :
       /\ Ran(<<"cp", e>>, ok)
       /\ IF ok
          THEN /\ rootfs' = Cp(rep, e, rootfs)
               /\ todo' = todo \ {e}
               /\ pc' = pc
               /\ exc' = exc
          ELSE /\ RaiseInTry(<<"cp", e>>)
               /\ UNCHANGED <<rootfs, todo>>
  /\ UNCHANGED <<art, inputs, runs, imgExists, rootTar, tmpTar, rep, bound, idx, dev,
                 swap>>

CopyEnd ==
  /\ pc = "copy"
  /\ todo = {}
  /\ pc' = "restore"
  /\ UNCHANGED <<art, inputs, runs, faults, host, idx, todo, exc, log, injected, dev,
                 swap>>

\* os.path.exists(backup_tar_tmp), line 147.
HasStagedArchive == tmpTar # NoFile

\* tar xf backup_tar_tmp -C root_mount, lines 147-152.
Restore ==
  /\ pc = "restore"
  /\ HasStagedArchive
  /\ \E ok \in Outcomes :
       /\ Ran(<<"tar", "extract">>, ok)
       /\ IF ok
          THEN /\ rootfs' = TarExtract(rootfs, tmpTar[1])
               /\ extracted' = tmpTar
               /\ pc' = "rm_archive"
               /\ exc' = exc
          ELSE /\ RaiseInTry(<<"tar", "extract">>)
               /\ UNCHANGED <<rootfs, extracted>>
  /\ UNCHANGED <<art, inputs, runs, imgExists, rootTar, tmpTar, rep, bound, idx, todo,
                 dev, dirs, pre>>

\* Lines 154-155: nothing to restore.
RestoreSkip ==
  /\ pc = "restore"
  /\ ~HasStagedArchive
  /\ pc' = "umount_boot"
  /\ UNCHANGED <<art, inputs, runs, faults, host, idx, todo, exc, log, injected, dev,
                 swap>>

\* rm -f backup_tar_tmp, line 153.
RmArchive ==
  /\ pc = "rm_archive"
  /\ \E ok \in Outcomes :
       /\ Ran(<<"rm", "archive">>, ok)
       /\ IF ok
          THEN /\ tmpTar' = NoFile
               /\ pc' = "umount_boot"
               /\ exc' = exc
          ELSE /\ RaiseInTry(<<"rm", "archive">>)
               /\ tmpTar' = tmpTar
  /\ UNCHANGED <<art, inputs, runs, imgExists, rootfs, rootTar, rep, bound, idx, todo,
                 dev, swap>>

----------------------------------------------------------------------------
\* combine_images, lines 164-170: the release block.

\* sudo umount of one mount point, lines 166-167.  umount exits non-zero on a
\* directory nothing is mounted on.
Umount(at, next, part) ==
  /\ pc = at
  /\ IF part \in mounted
     THEN \E ok \in Outcomes :
            /\ Ran(<<"umount", part>>, ok)
            /\ IF ok
               THEN /\ mounted' = mounted \ {part}
                    /\ pc' = next
                    /\ exc' = exc
               ELSE /\ RaiseNow(<<"umount", part>>)
                    /\ mounted' = mounted
     ELSE /\ Failed(<<"umount", part>>)
          /\ RaiseNow(<<"umount", part>>)
          /\ mounted' = mounted
  /\ UNCHANGED <<art, inputs, runs, host, idx, todo, loop, detaches, tmpdirs, swap>>

UmountBootPart == Umount("umount_boot", "umount_root", "boot")

UmountRootPart == Umount("umount_root", "detach", "root")

\* sudo losetup -d, line 168.
Detach ==
  /\ pc = "detach"
  /\ \E ok \in Outcomes :
       /\ Ran(<<"losetup", "detach">>, ok)
       /\ IF ok
          THEN /\ loop' = "detached"
               /\ detaches' = detaches + 1
               /\ pc' = "rmtree"
               /\ exc' = exc
          ELSE /\ RaiseNow(<<"losetup", "detach">>)
               /\ UNCHANGED <<loop, detaches>>
  /\ UNCHANGED <<art, inputs, runs, host, idx, todo, mounted, tmpdirs, swap>>

\* shutil.rmtree of both mount points, lines 169-170; then the pending
\* exception goes on, or the function returns.
Rmtree ==
  /\ pc = "rmtree"
  /\ tmpdirs' = {}
  /\ log' = Append(log, Entry(<<"rmtree", "both">>, TRUE))
  /\ pc' = IF exc = NoExc THEN "returned" ELSE "raised"
  /\ combined' = IF exc = NoExc THEN <<[run |-> runs, fs |-> rootfs]>> ELSE combined
  /\ UNCHANGED <<inputs, runs, faults, host, idx, todo, exc, injected, loop,
                 detaches, mounted, swap, stale, azl, zst>>

----------------------------------------------------------------------------
\* main(), line 249, and cleanup(), lines 172-200.

\* Lines 182-185: the combined image takes the output name unless a file of
\* that name is there already.
CleanupRename ==
  /\ pc = "returned"
  /\ pc' = "cl_export"
  /\ IF imgExists /\ azl = NoFile
     THEN /\ azl' = <<[run |-> runs, fs |-> rootfs]>>
          /\ imgExists' = FALSE
          /\ rootfs' = EmptyTree
          /\ log' = Append(log, Entry(<<"rename", "image">>, TRUE))
     ELSE UNCHANGED <<azl, imgExists, rootfs, log>>
  /\ UNCHANGED <<inputs, runs, faults, rootTar, tmpTar, rep, bound, idx, todo,
                 exc, injected, dev, swap, stale, zst, combined>>

\* Lines 186-189: sudo rm -rf of the export directory.
CleanupExport ==
  /\ pc = "cl_export"
  /\ \E ok \in Outcomes :
       /\ Ran(<<"rm", "export">>, ok)
       /\ rep' = IF ok THEN EmptyTree ELSE rep
       /\ pc' = IF ok THEN "cl_image" ELSE "main_raised"
       /\ exc' = IF ok THEN exc ELSE <<"rm", "export">>
  /\ UNCHANGED <<art, inputs, runs, imgExists, rootfs, rootTar, tmpTar, bound,
                 idx, todo, dev, swap>>

\* Lines 190-193: the decompressed image is removed if it is still there.
CleanupImage ==
  /\ pc = "cl_image"
  /\ pc' = "cl_zstd"
  /\ IF imgExists
     THEN /\ imgExists' = FALSE
          /\ rootfs' = EmptyTree
          /\ rootTar' = NoFile
          /\ log' = Append(log, Entry(<<"remove", "image">>, TRUE))
     ELSE UNCHANGED <<imgExists, rootfs, rootTar, log>>
  /\ UNCHANGED <<art, inputs, runs, faults, tmpTar, rep, bound, idx, todo, exc,
                 injected, dev, swap>>

\* Lines 194-198: zstd compresses the file of the output name.  Where the
\* compressed file exists already zstd overwrites it only if the user agrees.
CleanupCompress ==
  /\ pc = "cl_zstd"
  /\ azl # NoFile
  /\ \E ok \in (IF zst = NoFile THEN Outcomes ELSE BOOLEAN) :
       /\ IF ok \/ zst = NoFile
          THEN Ran(<<"zstd", "image">>, ok)
          ELSE Failed(<<"zstd", "image">>)
       /\ zst' = IF ok THEN azl ELSE zst
       /\ pc' = IF ok THEN "idle" ELSE "main_raised"
       /\ exc' = IF ok THEN exc ELSE <<"zstd", "image">>
  /\ UNCHANGED <<inputs, runs, host, idx, todo, dev, swap, stale, azl, combined>>

Cleanup ==
  \/ CleanupRename
  \/ CleanupExport
  \/ CleanupImage
  \/ CleanupCompress

Mounter ==
  \/ Attach
  \/ CheckBoot
  \/ CheckRoot
  \/ Mkdtemp
  \/ MountBoot
  \/ MountRoot

Replacer ==
  \/ Resolve
  \/ Archive
  \/ MoveArchive
  \/ WipeEntry
  \/ WipeEnd
  \/ CopyEntry
  \/ CopyEnd
  \/ Restore
  \/ RestoreSkip
  \/ RmArchive

Release ==
  \/ UmountBootPart
  \/ UmountRootPart
  \/ Detach
  \/ Rmtree

Next ==
  \/ StartRun
  \/ StartRunBusy
  \/ StartRunClearFails
  \/ Provision
  \/ Mounter
  \/ Replacer
  \/ Release
  \/ Cleanup

Spec == Init /\ [][Next]_vars

----------------------------------------------------------------------------
\* Vocabulary of the properties.

\* combine_images has returned or raised.
Finished == pc \in {"returned", "raised"}

Succeeded == pc = "returned"

\* The position of the first execution of step s in this run's log, 0 if none.
FirstAt(s) ==
  LET at == {i \in 1..Len(log) : log[i].step = s}
  IN IF at = {} THEN 0 ELSE CHOOSE i \in at : \A j \in at : i <= j

\* The position of the first command of one kind in this run's log, 0 if none.
FirstOfKind(k) ==
  LET at == {i \in 1..Len(log) : log[i].step[1] = k}
  IN IF at = {} THEN 0 ELSE CHOOSE i \in at : \A j \in at : i <= j

\* The command this run executed last.
Last ==
  IF log = <<>> THEN Entry(<<"none", "none">>, TRUE) ELSE log[Len(log)]

Did(s, ok) == \E i \in 1..Len(log) : log[i].step = s /\ log[i].ok = ok

\* Forward steps of combine_images after the provisioning.
AfterProvisionForward(s) ==
  \/ s = <<"losetup", "attach">>
  \/ s[1] \in {"fsck", "mount", "tar", "mv", "wipe", "cp"}
  \/ s = <<"rm", "archive">>

\* Forward steps of the provisioning that follow the first bind.
ProvisionForwardAfterFirstBind(s) ==
  \/ s \in {<<"bind", "proc">>, <<"bind", "sys">>}
  \/ s[1] \in {"write", "chroot"}

\* p is one of the paths of dirs_to_backup or lies below one.
Preserved(p) == \E i \in 1..Len(dirs) : IsPrefix(dirs[i], p)

UnderBoot(p) == IsPrefix(<<"boot">>, p)

\* The four candidate paths in rule order, and those of them a tree holds.
Candidates ==
  << <<"usr", "lib", "modules">>, <<"usr", "src">>,
     <<"usr", "lib", "firmware">>, <<"usr", "lib", "raspi-config">> >>

HeldCandidates(t) == SelectSeq(Candidates, LAMBDA c : t[c] # "absent")

ResolverRan ==
  \/ Did(<<"resolve", "dirs">>, TRUE)
  \/ Did(<<"listdir", "usr/lib">>, FALSE)

\* C1: after a failure injected at one forward stage that follows the
\* provisioning, when combine_images returns or raises the loop device has
\* been detached exactly once if it was attached, no partition is mounted and
\* both temporary mount-point directories are gone.
C1_ReleasedAfterForwardFailure ==
  (/\ Finished
   /\ Len(injected) = 1
   /\ AfterProvisionForward(injected[1]))
  => /\ (loop # "none" => (loop = "detached" /\ detaches = 1))
     /\ mounted = {}
     /\ tmpdirs = {}

\* C2: when a provisioning step after the first bind fails, every bound
\* pseudo-filesystem has been unmounted by the time combine_images raises.
C2_BindingsReleasedOnFailure ==
  (/\ pc = "raised"
   /\ Len(injected) = 1
   /\ ProvisionForwardAfterFirstBind(injected[1]))
  => bound = {}

\* C3: whatever subset of the four candidate paths the mounted root holds,
\* with or without usr/lib, the resolver step yields dirs_to_backup equal to
\* that subset: no duplicates, fixed paths in rule order, then the
\* prefix-matched entries, every one existing under the mounted root.
C3_ResolverYieldsSubset ==
  ResolverRan
  => /\ Did(<<"resolve", "dirs">>, TRUE)
     /\ dirs = HeldCandidates(pre)
     /\ \A i \in 1..Len(dirs) : Exists(pre, dirs[i])

\* C4: after a successful run every path at or below a preserved directory
\* that the donor root held is in the mounted root with the content it had
\* before the run, also where the replacement tree supplies the same path.
C4_PreservedSurvive ==
  Succeeded
  => \A p \in Paths : (Preserved(p) /\ Exists(pre, p)) => rootfs[p] = pre[p]

\* C4 witness: a finished run in which the donor's y.ko was preserved while
\* the replacement tree supplied a y.ko of its own.
C4_Witness ==
  /\ Succeeded
  /\ Preserved(<<"usr", "lib", "modules", "y.ko">>)
  /\ pre[<<"usr", "lib", "modules", "y.ko">>] = "d"
  /\ rep[<<"usr", "lib", "modules", "y.ko">>] = "r"
  /\ rootfs[<<"usr", "lib", "modules", "y.ko">>] = "d"
  /\ rootfs[<<"usr", "lib", "modules", "x.ko">>] = "r"

\* C5: after a successful run the boot subtree of the mounted root is what
\* it was before the run, also when the replacement tree has a top-level boot.
C5_BootUntouched ==
  Succeeded => \A p \in Paths : UnderBoot(p) => rootfs[p] = pre[p]

\* C6 as stated: after a successful run a donor entry that is neither
\* preserved nor under boot exists only if the replacement tree supplies it.
C6_NonPreservedGone ==
  Succeeded
  => \A p \in Paths :
       (/\ Exists(pre, p)
        /\ ~Preserved(p)
        /\ ~UnderBoot(p)
        /\ ~Exists(rep, p))
       => ~Exists(rootfs, p)

\* p is a directory tar had to recreate to hold a path it extracted.
ParentOfExtracted(p) ==
  /\ extracted # NoFile
  /\ \E q \in Paths : Exists(extracted[1], q) /\ IsPrefix(p, q)

\* C6 amended: after a successful run a donor entry that is neither preserved
\* nor under boot exists only if the replacement tree supplies it or it is a
\* parent directory of a path the restore step extracted.
C6_NonPreservedGoneButParents ==
  Succeeded
  => \A p \in Paths :
       (/\ Exists(pre, p)
        /\ ~Preserved(p)
        /\ ~UnderBoot(p)
        /\ ~Exists(rep, p)
        /\ ~ParentOfExtracted(p))
       => ~Exists(rootfs, p)

\* C6 witness: a finished run that preserved something, in which the donor's
\* etc/passwd, which the replacement tree does not supply, is gone.
C6_Witness ==
  /\ Succeeded
  /\ dirs # <<>>
  /\ Exists(pre, <<"etc", "passwd">>)
  /\ ~Exists(rep, <<"etc", "passwd">>)
  /\ ~Exists(rootfs, <<"etc", "passwd">>)
  /\ Exists(rootfs, <<"etc", "os-release">>)

\* C7: a partition mount is attempted only after the boot check and then the
\* root check have both succeeded; after a failed check no mount is attempted.
C7_ChecksBeforeMounts ==
  Last.step[1] = "mount"
  => LET b == FirstAt(<<"fsck", "boot">>)
         r == FirstAt(<<"fsck", "root">>)
     IN /\ 0 < b /\ b < r /\ r < FirstOfKind("mount")
        /\ log[b].ok /\ log[r].ok
        /\ ~Did(<<"fsck", "boot">>, FALSE)
        /\ ~Did(<<"fsck", "root">>, FALSE)

\* C7 witness: the root check failed and combine_images raised.
C7_Witness ==
  /\ pc = "raised"
  /\ Did(<<"fsck", "boot">>, TRUE)
  /\ Did(<<"fsck", "root">>, FALSE)
  /\ exc = <<"fsck", "root">>

\* C8: boot is mounted before root; the release unmounts root before boot,
\* then detaches the loop device, then removes the temporary directories.
C8_ReverseOrderRelease ==
  Succeeded
  => /\ FirstAt(<<"mount", "boot">>) < FirstAt(<<"mount", "root">>)
     /\ FirstAt(<<"umount", "root">>) < FirstAt(<<"umount", "boot">>)
     /\ FirstAt(<<"umount", "boot">>) < FirstAt(<<"losetup", "detach">>)
     /\ FirstAt(<<"losetup", "detach">>) < FirstAt(<<"rmtree", "both">>)

\* C9: whenever combine_images returns or raises, no archive is left at the
\* staging path nor inside the mounted root.
C9_NoArchiveLeft == Finished => (tmpTar = NoFile /\ rootTar = NoFile)

\* C10: in a run whose preservation set is empty no archive is created and
\* nothing is extracted into the mounted root.
C10_EmptySetRestoresNothing ==
  (Did(<<"resolve", "dirs">>, TRUE) /\ dirs = <<>>)
  => /\ ~Did(<<"tar", "create">>, TRUE)
     /\ ~Did(<<"tar", "extract">>, TRUE)
     /\ extracted = NoFile

\* Steps of the two finally blocks.
CleanupStep(s) ==
  \/ s = <<"rm", "resolv.conf">>
  \/ s = <<"losetup", "detach">>
  \/ s[1] \in {"unbind", "umount", "rmtree"}

\* The position of the first failed command of this run's log, 0 if none.
FirstFailureAt ==
  LET at == {i \in 1..Len(log) : ~log[i].ok}
  IN IF at = {} THEN 0 ELSE CHOOSE i \in at : \A j \in at : i <= j

\* C11: when a forward step fails and a cleanup step fails in the same run,
\* the error combine_images raises is the one of the forward step.
C11_OriginalErrorReported ==
  (/\ pc = "raised"
   /\ FirstFailureAt > 0
   /\ ~CleanupStep(log[FirstFailureAt].step)
   /\ \E i \in 1..Len(log) : ~log[i].ok /\ CleanupStep(log[i].step))
  => exc = log[FirstFailureAt].step

\* C12: with a non-empty preservation set, the wipe deletes nothing unless
\* the archive was created and moved to the staging path earlier in the run;
\* after a failed archive or move the mounted root is as the resolver found it.
C12_ArchivedBeforeWipe ==
  dirs # <<>>
  => LET c == FirstAt(<<"tar", "create">>)
         m == FirstAt(<<"mv", "archive">>)
     IN /\ Last.step[1] = "wipe"
           => /\ 0 < c /\ c < m /\ m < FirstOfKind("wipe")
              /\ log[c].ok /\ log[m].ok
        /\ ((c > 0 /\ ~log[c].ok) \/ (m > 0 /\ ~log[m].ok))
           => (FirstOfKind("wipe") = 0 /\ rootfs = pre)

\* C12 witness: the move of the archive failed, the run is over and the
\* mounted root still holds everything the resolver found.
C12_Witness ==
  /\ pc = "raised"
  /\ dirs # <<>>
  /\ Did(<<"tar", "create">>, TRUE)
  /\ Did(<<"mv", "archive">>, FALSE)
  /\ rootfs = pre

\* C13: after a failed forward step only cleanup steps are executed.
C13_NoForwardAfterFailure ==
  LET f == FirstFailureAt
  IN f > 0 => \A i \in (f + 1)..Len(log) : CleanupStep(log[i].step)

\* C13 witness: the package install failed, the finally block ran and
\* combine_images raised without having attached anything.
C13_Witness ==
  /\ pc = "raised"
  /\ exc = <<"chroot", "install">>
  /\ Did(<<"chroot", "install">>, FALSE)
  /\ Did(<<"unbind", "sys">>, TRUE)
  /\ loop = "none"

\* C14: once the provisioning cleanup has started, the unmount of each of the
\* three bindings is attempted before combine_images goes on or raises.
C14_EveryUnbindAttempted ==
  (FirstAt(<<"rm", "resolv.conf">>) > 0 /\ pc # "unbind")
  => \A i \in 1..Len(PseudoFs) : FirstAt(<<"unbind", PseudoFs[i]>>) > 0

\* C15: once the release block has started, every release step is attempted
\* before combine_images returns or raises.
C15_EveryReleaseAttempted ==
  (Finished /\ FirstAt(<<"umount", "boot">>) > 0)
  => /\ FirstAt(<<"umount", "root">>) > 0
     /\ FirstAt(<<"losetup", "detach">>) > 0
     /\ FirstAt(<<"rmtree", "both">>) > 0

ProvisionSteps ==
  { <<"chroot", "update">>, <<"chroot", "install">>, <<"chroot", "usermod">>,
    <<"unbind", "dev">>, <<"unbind", "proc">>, <<"unbind", "sys">> }

\* C16: the loop attach, and with it every copy of a replacement entry, comes
\* after the three chroot commands succeeded and the three bindings were
\* unmounted; no binding is active from the attach on.
C16_ProvisionedBeforeConsumed ==
  /\ loop # "none" => bound = {}
  /\ (Last.step = <<"losetup", "attach">> \/ Last.step[1] = "cp")
     => LET a == FirstAt(<<"losetup", "attach">>)
        IN /\ 0 < a
           /\ FirstOfKind("cp") > 0 => a < FirstOfKind("cp")
           /\ bound = {}
           /\ \A s \in ProvisionSteps : FirstAt(s) > 0
           /\ \A i \in 1..Len(log) :
                log[i].step \in ProvisionSteps => (log[i].ok /\ i < a)

\* C16 witness: the copy loop has copied an entry with nothing bound.
C16_Witness ==
  /\ pc = "copy"
  /\ FirstOfKind("cp") > 0
  /\ bound = {}
  /\ Did(<<"chroot", "usermod">>, TRUE)

Resolv == <<"etc", "resolv.conf">>

\* C18: the resolv.conf copied from the host is never in the mounted root;
\* when the copy loop runs it has been removed from the replacement tree.
C18_HostResolvNotInImage ==
  /\ rootfs[Resolv] # "h"
  /\ (pc = "copy" \/ Last.step[1] = "cp")
     => /\ rep[Resolv] = "absent"
        /\ Did(<<"write", "resolv.conf">>, TRUE)
        /\ Did(<<"rm", "resolv.conf">>, TRUE)

\* C18 witness: etc was copied into the mounted root without a resolv.conf.
C18_Witness ==
  /\ Did(<<"cp", "etc">>, TRUE)
  /\ Did(<<"write", "resolv.conf">>, TRUE)
  /\ rootfs[<<"etc", "os-release">>] = "r"
  /\ rootfs[<<"etc", "fstab">>] = "g"
  /\ rootfs[Resolv] = "absent"


----------------------------------------------------------------------------
\* C17 (as stated): when the donor image is attached in a run, losetup -D has
\* succeeded as the first step of that run and no loop attachment made by an
\* earlier run exists any more.
C17_AllClearedAtAttach ==
  Last.step = <<"losetup", "attach">>
  => /\ log[1] = Entry(<<"losetup", "clear">>, TRUE)
     /\ stale = {}
     /\ FirstAt(<<"losetup", "attach">>) = Len(log)

\* C17 (amended): when the donor image is attached in a run, losetup -D has
\* succeeded as the first step of that run, the only loop attachments of
\* earlier runs that still exist are those with a partition still mounted,
\* and the run has attached nothing before.
C17_UnusedClearedAtAttach ==
  Last.step = <<"losetup", "attach">>
  => /\ log[1] = Entry(<<"losetup", "clear">>, TRUE)
     /\ "idle" \notin stale
     /\ FirstAt(<<"losetup", "attach">>) = Len(log)

\* A second run attaches the donor image while the first run's device, which
\* losetup -D could not detach, is still there.
C17_Witness ==
  /\ runs = 2
  /\ Did(<<"losetup", "attach">>, TRUE)
  /\ stale = {"busy"}

\* C19: every run starts combine_images on the pristine donor image: its root
\* partition is the donor's, with no archive of an earlier run in it.
C19_FreshDonorEachRun ==
  (pc = "bind" /\ idx = 1) =>
    /\ rootfs = DonorTree(donorHas, donorLib)
    /\ rootTar = NoFile

\* C20: once cleanup() has completed after combine_images returned, the image
\* combine_images returned in this run is the output image and the compressed
\* output image, and it was not removed.
C20_CombinedImageKept ==
  (pc = "idle" /\ combined # NoFile) =>
    /\ azl = combined
    /\ zst = combined
    /\ ~Did(<<"remove", "image">>, TRUE)

====
